---- MODULE Spec2Model ----
(***************************************************************************)
(* Verification model of app.py (food-api): the range parser and the kcal  *)
(* extractor of extract_fields, the deterministic fallback planner, JSON   *)
(* extraction, and the two request handlers analyze_food and workout_plan. *)
(*                                                                         *)
(* Numbers.  Python floats are IEEE-754 doubles.  The planner's arithmetic *)
(* is modelled bit-exactly for integer-valued targetCalories and MET and   *)
(* for weights that are multiples of 5 kg: a double is a record            *)
(*   [m |-> <<b1, ..., bP>>, e |-> k]   with b1 = 1, value = int(m) * 2^k. *)
(* Minutes handled by workout_plan are kept in hundredths of a minute.     *)
(***************************************************************************)
EXTENDS Integers, Sequences, FiniteSets, TLC

(***************************************************************************)
(* IEEE-754 double arithmetic (round to nearest, ties to even)             *)
(***************************************************************************)

\* significand width of a Python float
P == 53

\* number of binary digits of n > 0
BitLen(n) == CHOOSE l \in 1..31 : 2^(l - 1) <= n /\ (l = 31 \/ n < 2^l)

\* binary digits of n > 0, most significant first
Bin(n) == [i \in 1..BitLen(n) |-> (n \div 2^(BitLen(n) - i)) % 2]

RECURSIVE ToInt(_)
\* value of a short bit string
ToInt(bits) ==
    IF Len(bits) = 0 THEN 0
    ELSE IF Len(bits) = 1 THEN bits[1]
    ELSE LET h == Len(bits) \div 2
         IN  ToInt(SubSeq(bits, 1, h)) * 2^(Len(bits) - h)
             + ToInt(SubSeq(bits, h + 1, Len(bits)))

Zeros(n) == [i \in 1..n |-> 0]

AnyOne(bits) == \E i \in 1..Len(bits) : bits[i] = 1

\* bits without its leading zeros
Strip(bits) ==
    IF ~AnyOne(bits) THEN <<>>
    ELSE LET f == CHOOSE i \in 1..Len(bits) :
                     bits[i] = 1 /\ \A j \in 1..(i - 1) : bits[j] = 0
         IN  SubSeq(bits, f, Len(bits))

\* bits + 1, same length; all ones wraps to all zeros: the bits after the
\* last 0 flip, and so does that 0
Inc(bits) ==
    LET z == {i \in 1..Len(bits) : bits[i] = 0}
        l == IF z = {} THEN 0 ELSE CHOOSE i \in z : \A j \in z : j <= i
    IN  [i \in 1..Len(bits) |-> IF i < l THEN bits[i] ELSE IF i = l THEN 1 ELSE 0]

\* Round the exact positive value int(bits) * 2^e (+ a nonzero tail below the
\* last bit when sticky) to P significant bits.  bits[1] = 1.
\* dir is the sign of (rounded - exact).
FRound(bits, sticky, e) ==
    LET full  == IF Len(bits) > P THEN bits ELSE bits \o Zeros(P + 1 - Len(bits))
        keep  == SubSeq(full, 1, P)
        guard == full[P + 1]
        rest  == sticky \/ AnyOne(SubSeq(full, P + 2, Len(full)))
        up    == guard = 1 /\ (rest \/ keep[P] = 1)
        inex  == guard = 1 \/ rest
        e2    == e + Len(bits) - P
    IN  IF ~up THEN [m |-> keep, e |-> e2, dir |-> IF inex THEN -1 ELSE 0]
        ELSE IF AnyOne(Inc(keep))
             THEN [m |-> Inc(keep), e |-> e2, dir |-> 1]
             ELSE [m |-> <<1>> \o Zeros(P - 1), e |-> e2 + 1, dir |-> 1]

\* float(n) for an integer 0 < n < 2^31: exact
FromInt(n) == [m |-> Bin(n) \o Zeros(P - BitLen(n)), e |-> BitLen(n) - P, dir |-> 0]

Reverse(bits) == [i \in 1..Len(bits) |-> bits[Len(bits) + 1 - i]]

RECURSIVE MulBits(_, _, _)
\* bits * k + carry as [q: the low Len(bits) digits, least significant first,
\* c: what carries out], the low half first and its carry into the high half
MulBits(bits, k, carry) ==
    IF Len(bits) = 0 THEN [q |-> <<>>, c |-> carry]
    ELSE IF Len(bits) = 1
    THEN [q |-> <<(k * bits[1] + carry) % 2>>, c |-> (k * bits[1] + carry) \div 2]
    ELSE LET h  == Len(bits) \div 2
             lo == MulBits(SubSeq(bits, h + 1, Len(bits)), k, carry)
             hi == MulBits(SubSeq(bits, 1, h), k, lo.c)
         IN  [q |-> lo.q \o hi.q, c |-> hi.c]

\* the digits of bits * k, most significant first
Times(bits, k) ==
    LET p == MulBits(bits, k, 0)
    IN  (IF p.c = 0 THEN <<>> ELSE Bin(p.c)) \o Reverse(p.q)

\* x * k for a double x and an exactly representable integer k > 0
FMul(x, k) == FRound(Times(x.m, k), FALSE, x.e)

RECURSIVE DivBits(_, _, _)
\* long division of (r, bits) by k as [q: Len(bits) quotient digits, r: the
\* remainder], the high half first and its remainder into the low half
DivBits(bits, k, r) ==
    IF Len(bits) = 0 THEN [q |-> <<>>, r |-> r]
    ELSE IF Len(bits) = 1
    THEN LET r2 == 2 * r + bits[1]
         IN  [q |-> <<IF r2 >= k THEN 1 ELSE 0>>, r |-> IF r2 >= k THEN r2 - k ELSE r2]
    ELSE LET h  == Len(bits) \div 2
             hi == DivBits(SubSeq(bits, 1, h), k, r)
             lo == DivBits(SubSeq(bits, h + 1, Len(bits)), k, hi.r)
         IN  [q |-> hi.q \o lo.q, r |-> lo.r]

\* digits appended to a dividend so that a quotient by k < 2^GuardBits keeps
\* more than P significant digits
GuardBits == 16

\* x / k for a double x and an exactly representable integer 0 < k < 2^GuardBits
FDiv(x, k) ==
    LET d == DivBits(x.m \o Zeros(GuardBits), k, 0)
    IN  FRound(Strip(d.q), d.r # 0, x.e - GuardBits)

\* sign of x - y for two doubles
FCmp(x, y) ==
    IF x.e # y.e THEN (IF x.e > y.e THEN 1 ELSE -1)
    ELSE IF x.m = y.m THEN 0
    ELSE LET i == CHOOSE j \in 1..P :
                     x.m[j] # y.m[j] /\ \A l \in 1..(j - 1) : x.m[l] = y.m[l]
         IN  IF x.m[i] > y.m[i] THEN 1 ELSE -1

\* whether the double x is an integer, and that integer (x < 2^31)
FIsInt(x) == x.e >= 0 \/ ~AnyOne(SubSeq(x.m, P + x.e + 1, P))

FToInt(x) == IF x.e >= 0 THEN ToInt(x.m \o Zeros(x.e)) ELSE ToInt(SubSeq(x.m, 1, P + x.e))

\* Python round(x, 1), as a number of tenths: the exact binary value of x is
\* rounded to one decimal, ties to even
Round1(x) ==
    LET t    == Times(x.m, 10)
        n    == Len(t) + x.e
        ip   == IF n <= 0 THEN 0 ELSE ToInt(SubSeq(t, 1, n))
        frac == IF n <= 0 THEN Zeros(-n) \o t ELSE SubSeq(t, n + 1, Len(t))
        half == frac # <<>> /\ frac[1] = 1
        more == Len(frac) > 1 /\ AnyOne(SubSeq(frac, 2, Len(frac)))
    IN  IF x.e >= 0 THEN 10 * FToInt(x)
        ELSE IF half /\ (more \/ ip % 2 = 1) THEN ip + 1 ELSE ip

(***************************************************************************)
(* Deterministic fallback planner                                          *)
(*                                                                         *)
(* A candidate is [id, name, met]; met is an integer-valued MET.  A plan   *)
(* item is [id, minutes]: minutes is a one-element sequence holding        *)
(* hundredths of a minute, or <<>> when the field is missing; sets, reps   *)
(* and note are constant in the planner and are not modelled.              *)
(* remaining is [v |-> n] for the integer n (kcal), with res = TRUE when   *)
(* the double is n plus a positive rounding residue below one ulp (n = 0). *)
(***************************************************************************)

\* kcal = MET * weightKg * minutes / 60, on doubles; met * weightKg is exact
kcal_burned(met, weightKg, minutes) == FDiv(FMul(minutes, met * weightKg), 60)

RECURSIVE SortByMetDesc(_)
\* cands.sort(key=met, reverse=True): stable, equal METs keep their order
SortByMetDesc(cands) ==
    IF cands = <<>> THEN <<>>
    ELSE LET n    == Len(cands)
             c    == cands[n]
             rest == SortByMetDesc(SubSeq(cands, 1, n - 1))
             k    == Cardinality({i \in 1..Len(rest) : rest[i].met >= c.met})
         IN  SubSeq(rest, 1, k) \o <<c>> \o SubSeq(rest, k + 1, Len(rest))

PositiveMet(candidates) == SelectSeq(candidates, LAMBDA c : c.met > 0)

IsPositive(remaining) == remaining.v > 0 \/ remaining.res

\* minutes = max(4.0, min(12.0, remaining * 60.0 / (met * weightKg)))
ClampMinutes(remaining, met, weightKg) ==
    IF remaining.res THEN FromInt(4)
    ELSE LET q == FDiv(FromInt(remaining.v * 60), met * weightKg)
         IN  IF FCmp(q, FromInt(12)) > 0 THEN FromInt(12)
             ELSE IF FCmp(q, FromInt(4)) < 0 THEN FromInt(4)
             ELSE q

\* remaining -= burned
Subtract(remaining, burned) ==
    IF remaining.res THEN [v |-> -1, res |-> FALSE]
    ELSE IF FIsInt(burned) THEN [v |-> remaining.v - FToInt(burned), res |-> FALSE]
    ELSE IF FCmp(FromInt(remaining.v), burned) > 0 THEN [v |-> 0, res |-> TRUE]
    ELSE [v |-> -1, res |-> FALSE]

\* one pass of the loop body: the item appended and the new remaining
PlanStep(c, remaining, weightKg) ==
    LET minutes == ClampMinutes(remaining, c.met, weightKg)
        burned  == kcal_burned(c.met, weightKg, minutes)
    IN  [item      |-> [id |-> c.id, minutes |-> <<10 * Round1(minutes)>>],
         remaining |-> Subtract(remaining, burned)]

\* "AI Workout Plan"
DefaultTitle == <<"A", "I">>

\* the soft cap of the walk
SoftCap == 5

\* cands[:10]
WalkLimit == 10

RECURSIVE Walk(_, _, _, _, _)
\* for c in cands[:10]: ... ; i is the index of the next candidate
Walk(cands, i, remaining, weightKg, items) ==
    IF i > Len(cands) \/ i > WalkLimit \/ ~IsPositive(remaining) THEN items
    ELSE LET s  == PlanStep(cands[i], remaining, weightKg)
             it == Append(items, s.item)
         IN  IF Len(it) >= SoftCap THEN it
             ELSE Walk(cands, i + 1, s.remaining, weightKg, it)

fallback_plan(targetCalories, weightKg, candidates) ==
    LET cands == SortByMetDesc(PositiveMet(candidates))
    IN  [planTitle |-> DefaultTitle,
         items     |-> Walk(cands, 1, [v |-> targetCalories, res |-> FALSE],
                            weightKg, <<>>)]

(***************************************************************************)
(* Text parsing.  A string is a sequence of characters; a character is a   *)
(* one-letter string, and EnDash stands for U+2013.  An optional value is  *)
(* None or Some(v).  float(numeral) is the exact decimal [num, den].       *)
(***************************************************************************)

None == <<>>

Some(v) == <<v>>

EnDash == "ndash"

Digits == {"0", "1", "2", "3", "4", "5", "6", "7", "8", "9"}

IsDigit(c) == c \in Digits

\* \s
Spaces == {" ", "\t", "\n"}

IsSpace(c) == c \in Spaces

\* [-–]
IsDash(c) == c \in {"-", EnDash}

DigitVal(c) ==
    CASE c = "0" -> 0 [] c = "1" -> 1 [] c = "2" -> 2 [] c = "3" -> 3 [] c = "4" -> 4
      [] c = "5" -> 5 [] c = "6" -> 6 [] c = "7" -> 7 [] c = "8" -> 8 [] c = "9" -> 9

RECURSIVE IntOf(_)
\* int(digits)
IntOf(ds) ==
    IF ds = <<>> THEN 0
    ELSE 10 * IntOf(SubSeq(ds, 1, Len(ds) - 1)) + DigitVal(ds[Len(ds)])

\* str.strip()
strip(t) ==
    LET keep == {i \in 1..Len(t) : ~IsSpace(t[i])}
    IN  IF keep = {} THEN <<>>
        ELSE SubSeq(t, CHOOSE i \in keep : \A j \in keep : i <= j,
                       CHOOSE i \in keep : \A j \in keep : j <= i)

LowerChar(c) ==
    CASE c = "K" -> "k" [] c = "C" -> "c" [] c = "A" -> "a" [] c = "L" -> "l"
      [] c = "T" -> "t" [] c = "O" -> "o" [] OTHER -> c

\* str.lower()
lower(t) == [i \in 1..Len(t) |-> LowerChar(t[i])]

\* the position after the longest run of characters of class from i on
RunEnd(t, i, class) ==
    CHOOSE j \in i..(Len(t) + 1) :
        /\ \A k \in i..(j - 1) : t[k] \in class
        /\ (j = Len(t) + 1 \/ t[j] \notin class)

\* the ends (position after) of every way \d+ can match at i
DigitEnds(t, i) == (i + 1)..RunEnd(t, i, Digits)

\* the ends of every way \d+(?:\.\d+)? can match at i
NumberEnds(t, i) ==
    DigitEnds(t, i) \cup
    UNION {DigitEnds(t, j + 1) : j \in {e \in DigitEnds(t, i) : e <= Len(t) /\ t[e] = "."}}

\* the ends of every way \s* can match at i
SpaceEnds(t, i) == i..RunEnd(t, i, Spaces)

\* the ends of every way the literal lit can match at i
LitEnds(t, i, lit) ==
    IF i + Len(lit) - 1 <= Len(t) /\ SubSeq(t, i, i + Len(lit) - 1) = lit
    THEN {i + Len(lit)} ELSE {}

\* the ends of every way [-–] can match at i
DashEnds(t, i) == IF i <= Len(t) /\ IsDash(t[i]) THEN {i + 1} ELSE {}

Max(S) == CHOOSE v \in S : \A w \in S : w <= v

Min(S) == CHOOSE v \in S : \A w \in S : v <= w

\* float(s) for a numeral s = digits or digits.digits
ParseFloat(s) ==
    LET dot == {i \in 1..Len(s) : s[i] = "."}
    IN  IF dot = {} THEN [num |-> IntOf(s), den |-> 1]
        ELSE LET d == Min(dot)
             IN  [num |-> IntOf(SubSeq(s, 1, d - 1) \o SubSeq(s, d + 1, Len(s))),
                  den |-> 10 ^ (Len(s) - d)]

\* (a + b) / 2.0
Average(a, b) == [num |-> a.num * b.den + b.num * a.den, den |-> 2 * a.den * b.den]

\* re.search(r"(\d+(?:\.\d+)?)\s*[-–]\s*(\d+(?:\.\d+)?)", t) tried at start i:
\* the pairs <<end of group 1, start of group 2>> that let the rest match.
\* Every quantifier is greedy, so the match taken is the one with the longest
\* group 1, then the longest group 2.
RangeSplits(t, i) ==
    {<<e1, s2>> \in (1..(Len(t) + 1)) \X (1..(Len(t) + 1)) :
        /\ e1 \in NumberEnds(t, i)
        /\ \E a \in SpaceEnds(t, e1) : \E b \in DashEnds(t, a) :
              s2 \in SpaceEnds(t, b)
        /\ NumberEnds(t, s2) # {}}

RangeMatchAt(t, i) ==
    IF i > Len(t) \/ ~IsDigit(t[i]) \/ RangeSplits(t, i) = {} THEN None
    ELSE LET e1 == Max({p[1] : p \in RangeSplits(t, i)})
             s2 == Max({p[2] : p \in {r \in RangeSplits(t, i) : r[1] = e1}})
         IN  Some([g1 |-> SubSeq(t, i, e1 - 1),
                   g2 |-> SubSeq(t, s2, Max(NumberEnds(t, s2)) - 1)])

NumberMatchAt(t, i) ==
    IF i > Len(t) \/ ~IsDigit(t[i]) THEN None
    ELSE Some([g1 |-> SubSeq(t, i, Max(NumberEnds(t, i)) - 1)])

\* re.search: the match at the leftmost start that has one, or None
RangeSearch(t) ==
    LET starts == {i \in 1..Len(t) : RangeMatchAt(t, i) # None}
    IN  IF starts = {} THEN None ELSE RangeMatchAt(t, Min(starts))

NumberSearch(t) ==
    LET starts == {i \in 1..Len(t) : NumberMatchAt(t, i) # None}
    IN  IF starts = {} THEN None ELSE NumberMatchAt(t, Min(starts))

\* _avg_from_range_text with the two patterns tried in the other order
AvgNumberFirst(text) ==
    IF text = None THEN None
    ELSE LET t  == strip(text[1])
             m  == RangeSearch(t)
             m2 == NumberSearch(t)
         IN  IF m2 # None THEN Some(ParseFloat(m2[1].g1))
             ELSE IF m # None THEN Some(Average(ParseFloat(m[1].g1), ParseFloat(m[1].g2)))
             ELSE None

\* '30-40' -> 35, '30 - 40' -> 35, '30' -> 30
_avg_from_range_text(text) ==
    IF text = None THEN None
    ELSE LET t  == strip(text[1])
             m  == RangeSearch(t)
             m2 == NumberSearch(t)
         IN  IF m # None THEN Some(Average(ParseFloat(m[1].g1), ParseFloat(m[1].g2)))
             ELSE IF m2 # None THEN Some(ParseFloat(m2[1].g1))
             ELSE None

\* the tails "\s*(\d+)\s*kcal" of both kcal patterns, from the start s2 of the
\* second number: the ends of group 2 that let the rest match
KcalTailEnds(t, s2) ==
    {e2 \in DigitEnds(t, s2) :
        \E a \in SpaceEnds(t, e2) : LitEnds(t, a, <<"k", "c", "a", "l">>) # {}}

\* the ends of every way the separator of a kcal pattern can match at i
SepEnds(t, i, sep) ==
    IF sep = "dash" THEN DashEnds(t, i) ELSE LitEnds(t, i, <<"t", "o">>)

\* re.search(r"(\d+)\s*SEP\s*(\d+)\s*kcal", low) tried at start i, where
\* sep names SEP: "dash" for [-–], "to" for (?:to)
KcalSplits(t, i, sep) ==
    {<<e1, s2>> \in (1..(Len(t) + 1)) \X (1..(Len(t) + 1)) :
        /\ e1 \in DigitEnds(t, i)
        /\ \E a \in SpaceEnds(t, e1) : \E b \in SepEnds(t, a, sep) :
              s2 \in SpaceEnds(t, b)
        /\ s2 <= Len(t) /\ IsDigit(t[s2]) /\ KcalTailEnds(t, s2) # {}}

KcalMatchAt(t, i, sep) ==
    IF i > Len(t) \/ ~IsDigit(t[i]) \/ KcalSplits(t, i, sep) = {} THEN None
    ELSE LET e1 == Max({p[1] : p \in KcalSplits(t, i, sep)})
             s2 == Max({p[2] : p \in {r \in KcalSplits(t, i, sep) : r[1] = e1}})
         IN  Some([g1 |-> SubSeq(t, i, e1 - 1),
                   g2 |-> SubSeq(t, s2, Max(KcalTailEnds(t, s2)) - 1)])

KcalSearch(t, sep) ==
    LET starts == {i \in 1..Len(t) : KcalMatchAt(t, i, sep) # None}
    IN  IF starts = {} THEN None ELSE KcalMatchAt(t, Min(starts), sep)

\* the kcalRange field of extract_fields(raw_text); raw_text None or Some
kcal_range(raw_text) ==
    LET text == strip(IF raw_text = None THEN <<>> ELSE raw_text[1])
        low  == lower(text)
        m    == KcalSearch(low, "dash")
        m2   == KcalSearch(low, "to")
    IN  IF m # None THEN Some(<<IntOf(m[1].g1), IntOf(m[1].g2)>>)
        ELSE IF m2 # None THEN Some(<<IntOf(m2[1].g1), IntOf(m2[1].g2)>>)
        ELSE None

\* extract_fields(raw_text): the kcalRange field (dishName and the gram
\* fields are not modelled)
extract_fields(raw_text) == [kcalRange |-> kcal_range(raw_text)]

(***************************************************************************)
(* The external model and JSON.  A response text is a sequence of tokens:  *)
(* "{" "}" "[" "]", "x" (any text that is not JSON) and " ".  The JSON     *)
(* values written with these tokens are the object {...}, whose members    *)
(* are the response's doc, and arrays.  A doc is [title, items]: items is  *)
(* [kind |-> "absent"] (no items, or null), [kind |-> "number"] or         *)
(* [kind |-> "list", list |-> <<item, ...>>]; an item is [isdict, id,      *)
(* minutes], isdict = FALSE for an entry that is not an object.            *)
(***************************************************************************)

NoSpace(toks) == SelectSeq(toks, LAMBDA c : ~IsSpace(c))

\* json.loads(t): [ok, kind]; "[" ... "]" around a value is an array
json_loads(t) ==
    LET u == NoSpace(t)
        n == Len(u)
        d == IF n = 0 \/ n % 2 = 1 THEN 0 ELSE (n \div 2) - 1
        nested == /\ n >= 2 /\ n % 2 = 0
                  /\ \A i \in 1..d : u[i] = "[" /\ u[n + 1 - i] = "]"
                  /\ <<u[d + 1], u[d + 2]>> \in {<<"{", "}">>, <<"[", "]">>}
    IN  IF ~nested THEN [ok |-> FALSE, kind |-> "none"]
        ELSE IF n = 2 /\ u[1] = "{" THEN [ok |-> TRUE, kind |-> "object"]
        ELSE [ok |-> TRUE, kind |-> "array"]

\* safe_json_extract(text): [ok |-> FALSE] when it raises ValueError
safe_json_extract(text) ==
    LET t     == strip(IF text = None THEN <<>> ELSE text[1])
        opens == {i \in 1..Len(t) : t[i] = "{"}
        closes == {i \in 1..Len(t) : t[i] = "}"}
    IN  IF json_loads(t).ok THEN json_loads(t)
        ELSE IF opens # {} /\ closes # {} /\ Max(closes) > Min(opens)
        THEN json_loads(SubSeq(t, Min(opens), Max(closes)))
        ELSE [ok |-> FALSE, kind |-> "none"]

(***************************************************************************)
(* POST /api/workout_plan                                                  *)
(***************************************************************************)

\* the clamp without its upper bound
ClampLowOnly(minutes) == IF minutes < 300 THEN 300 ELSE minutes

\* minutes = max(3.0, min(20.0, minutes)), in hundredths
ClampItemMinutes(minutes) ==
    IF minutes > 2000 THEN 2000 ELSE IF minutes < 300 THEN 300 ELSE minutes

\* round(total_minutes, 1) as tenths, for a total in hundredths: ties to even
\* (a total ending in 5 hundredths is a multiple of 0.25 here, exact as a double)
RoundTotal(total) ==
    LET q == total \div 10
        r == total % 10
    IN  IF r > 5 \/ (r = 5 /\ q % 2 = 1) THEN q + 1 ELSE q

\* by_id.get(ex_id): the last candidate with that id wins in the dict
Lookup(candidates, ex_id) ==
    LET at == {i \in 1..Len(candidates) : candidates[i].id = ex_id}
    IN  IF at = {} THEN None ELSE Some(candidates[Max(at)])

RECURSIVE EnrichLoopBreak(_, _, _, _, _)
\* the loop with break where the code has continue
EnrichLoopBreak(items, i, candidates, out_items, total_minutes) ==
    IF i > Len(items) THEN [out_items |-> out_items, total_minutes |-> total_minutes]
    ELSE LET it      == items[i]
             ex_id   == strip(it.id)
             minutes == IF it.minutes = None THEN 0 ELSE it.minutes[1]
             cand    == Lookup(candidates, ex_id)
         IN  IF ex_id = <<>> \/ minutes <= 0 \/ cand = None
             THEN [out_items |-> out_items, total_minutes |-> total_minutes]
             ELSE EnrichLoopBreak(items, i + 1, candidates,
                     Append(out_items,
                            [id      |-> ex_id,
                             name    |-> IF cand[1].name # <<>> THEN cand[1].name ELSE ex_id,
                             met     |-> cand[1].met,
                             minutes |-> ClampItemMinutes(minutes)]),
                     total_minutes + ClampItemMinutes(minutes))

RECURSIVE EnrichLoop(_, _, _, _, _)
\* for it in items: ...; acc is [out_items, total_minutes]
EnrichLoop(items, i, candidates, out_items, total_minutes) ==
    IF i > Len(items) THEN [out_items |-> out_items, total_minutes |-> total_minutes]
    ELSE LET it      == items[i]
             ex_id   == strip(it.id)
             minutes == IF it.minutes = None THEN 0 ELSE it.minutes[1]
             cand    == Lookup(candidates, ex_id)
         IN  IF ex_id = <<>> \/ minutes <= 0 \/ cand = None
             THEN EnrichLoop(items, i + 1, candidates, out_items, total_minutes)
             ELSE EnrichLoop(items, i + 1, candidates,
                     Append(out_items,
                            [id      |-> ex_id,
                             name    |-> IF cand[1].name # <<>> THEN cand[1].name ELSE ex_id,
                             met     |-> cand[1].met,
                             minutes |-> ClampItemMinutes(minutes)]),
                     total_minutes + ClampItemMinutes(minutes))

\* lines 262-298: the response built from plan_json; an exception escaping
\* the handler is the framework's 500
Enrich(plan_json, candidates) ==
    IF plan_json.kind # "object" \/ plan_json.doc.items.kind = "number"
    THEN [status |-> 500]
    ELSE LET items == IF plan_json.doc.items.kind = "absent" THEN <<>>
                      ELSE plan_json.doc.items.list
             r     == EnrichLoop(items, 1, candidates, <<>>, 0)
         IN  IF \E k \in 1..Len(items) : ~items[k].isdict THEN [status |-> 500]
             ELSE [status       |-> 200,
                   planTitle    |-> IF plan_json.doc.title # <<>>
                                    THEN plan_json.doc.title ELSE DefaultTitle,
                   totalMinutes |-> RoundTotal(r.total_minutes),
                   items        |-> r.out_items]

\* fallback_plan(...) as the plan_json of the except branch
FallbackJson(req) ==
    LET fp == fallback_plan(req.targetCalories, req.weightKg, req.candidates)
    IN  [kind |-> "object", src |-> "fallback",
         doc  |-> [title |-> fp.planTitle,
                   items |-> [kind |-> "list",
                              list |-> [k \in 1..Len(fp.items) |->
                                          [isdict  |-> TRUE,
                                           id      |-> fp.items[k].id,
                                           minutes |-> fp.items[k].minutes]]]]]

\* lines 246-260: the try raised, for the model outcome g = [raises, text, doc]
Raised(g) == g.raises \/ ~safe_json_extract(g.text).ok

\* lines 246-260: what plan_json is after the try/except
PlanJson(req, g) ==
    IF Raised(g) THEN FallbackJson(req)
    ELSE [kind |-> safe_json_extract(g.text).kind, src |-> "model", doc |-> g.doc]

(***************************************************************************)
(* State                                                                   *)
(***************************************************************************)

VARIABLES
    pc,         \* where the request being handled is: "idle", "wp_recv",
                \* "wp_call", "wp_enrich", "af_recv", "af_call", "done"
    req,        \* the request: [endpoint, targetCalories, weightKg, candidates, image]
    calls,      \* generate_content calls made for the request
    gem,        \* what the external model did, once called
    plan_json,  \* plan_json of workout_plan after the try/except
    resp,       \* the response: [status, ...]
    rp,         \* a call of _avg_from_range_text: [text, result, done]
    kc,         \* a call of extract_fields: [text, parsed, done]
    fb          \* calls of fallback_plan: [phase, targetCalories, weightKg,
                \* candidates, plan, target2, plan2]

vars == <<pc, req, calls, gem, plan_json, resp, rp, kc, fb>>

handlerVars == <<pc, req, calls, gem, plan_json, resp>>

(***************************************************************************)
(* Bounds and input domains                                                *)
(***************************************************************************)

\* longest text given to _avg_from_range_text
MaxLen == 4

\* most digits of a number in a kcal text
MaxDigits == 2

\* largest targetCalories given to fallback_plan
MaxTarget == 30

\* most items in a plan the external model returns
MaxItems == 2

\* most tokens in a text the external model returns
MaxText == 2

RECURSIVE SeqsUpTo(_, _)
\* all sequences over S of length at most n
SeqsUpTo(S, n) ==
    IF n = 0 THEN {<<>>}
    ELSE LET shorter == SeqsUpTo(S, n - 1)
         IN  shorter \cup {Append(q, c) : q \in shorter, c \in S}

RangeAlphabet == {"1", "2", ".", "-", EnDash, " ", "g"}

\* longer texts, for ranges of numbers with a decimal point
LongRangeTexts ==
    {<<"1", ".", "5", "-", "2">>, <<"1", ".", "5", " ", EnDash, " ", "2", ".", "5">>,
     <<"2", "-", "1", ".", "5">>, <<" ", "1", "2", ".", "1", " ", "-", "2", "2", " ">>,
     <<"g", " ", "1", "-", "2", " ", "g">>, <<"1", ".", "2", ".", "1", "-", "2">>}

RangeTexts ==
    {None} \cup {Some(t) : t \in SeqsUpTo(RangeAlphabet, MaxLen) \cup LongRangeTexts}

KcalNumbers == SeqsUpTo({"2", "3"}, MaxDigits) \ {<<>>}

KcalSeps == {<<"-">>, <<EnDash>>, <<"T", "o">>, <<"/">>}

KcalUnits == {<<"k", "c", "a", "l">>, <<"K", "C", "A", "L">>, <<"g">>}

Blank == {<<>>, <<" ">>}

KcalTexts ==
    {pre \o a \o w \o sep \o w \o b \o w \o unit :
        pre \in {<<>>, <<"x", " ">>}, a \in KcalNumbers, w \in Blank,
        sep \in KcalSeps, b \in KcalNumbers, unit \in KcalUnits}

Cand(id, name, met) == [id |-> id, name |-> name, met |-> met]

\* candidate lists given to fallback_plan alone: unique ids, MET by position
MetList(mets) ==
    [k \in 1..Len(mets) |->
        Cand(<<<<"a">>, <<"b">>, <<"c">>, <<"d">>, <<"e">>, <<"f">>>>[k], <<"n">>, mets[k])]

PlannerLists ==
    {MetList(m) : m \in {<<8, 6, 5>>, <<6, 8, 5>>, <<5, 0, 8, 6>>, <<8, 8, 3>>,
                         <<2, 3, 5, 6, 8, 8>>, <<8, 6>>, <<0, 0, 8>>, <<0>>}}

PlannerWeights == {5, 50}

CandA == Cand(<<"a">>, <<"R">>, 8)

\* no name
CandB == Cand(<<"b">>, <<>>, 6)

\* the id of CandA again
CandA2 == Cand(<<"a">>, <<"J">>, 5)

\* an empty id
CandE == Cand(<<>>, <<"N">>, 3)

\* an id with a leading blank
CandP == Cand(<<" ", "b">>, <<"P">>, 2)

HandlerCandidates ==
    {<<>>, <<CandA>>, <<CandA, CandB>>, <<CandB, CandA, CandE>>,
     <<CandA, CandA2, CandP>>, <<CandE, CandP, CandB, CandA>>}

HandlerTargets == {-5, 0, 10, 29}

HandlerWeights == {0, 50}

Item(id, minutes) == [isdict |-> TRUE, id |-> id, minutes |-> minutes]

\* the items the external model puts in a plan; minutes in hundredths
ModelItems ==
    {Item(<<"a">>, Some(100)), Item(<<"a">>, Some(725)), Item(<<"a">>, Some(2500)),
     Item(<<"a">>, None), Item(<<"a">>, Some(-100)),
     Item(<<" ", "b">>, Some(725)), Item(<<"z">>, Some(725)), Item(<<>>, Some(725)),
     [isdict |-> FALSE, id |-> <<>>, minutes |-> None]}

NoDoc == [title |-> <<>>, items |-> [kind |-> "absent"]]

ModelDocs ==
    {NoDoc, [title |-> <<"M">>, items |-> [kind |-> "number"]]}
    \cup {[title |-> <<"M">>, items |-> [kind |-> "list", list |-> l]] :
            l \in SeqsUpTo(ModelItems, MaxItems)}

ModelTexts == {None} \cup {Some(t) : t \in SeqsUpTo({"{", "}", "[", "]", "x", " "}, MaxText)}

ObjectTexts == {t \in ModelTexts : safe_json_extract(t).kind = "object"}

\* what the external model can do with a plan request: raise, return a text
\* that holds no JSON object, or return one that holds the object doc
PlanOutcomes ==
    {[raises |-> TRUE, text |-> None, doc |-> NoDoc]}
    \cup {[raises |-> FALSE, text |-> t, doc |-> NoDoc] : t \in ModelTexts \ ObjectTexts}
    \cup {[raises |-> FALSE, text |-> t, doc |-> d] : t \in ObjectTexts, d \in ModelDocs}

Images == {"missing", "noname", "invalid", "ok"}

FoodTexts ==
    {None, Some(<<>>), Some(<<"x">>), Some(<<"3", "-", "2", "k", "c", "a", "l">>),
     Some(<<"2", " ", "T", "O", " ", "3", " ", "K", "C", "A", "L">>)}

FoodOutcomes ==
    {[raises |-> TRUE, text |-> None]} \cup {[raises |-> FALSE, text |-> t] : t \in FoodTexts}

NoReq == [endpoint |-> "none", targetCalories |-> 0, weightKg |-> 0,
          candidates |-> <<>>, image |-> "missing"]

NoGem == [raises |-> FALSE, text |-> None, doc |-> NoDoc]

NoPlan == [kind |-> "none", src |-> "none", doc |-> NoDoc]

NoResp == [status |-> 0]

NoRp == [text |-> None, result |-> None, done |-> FALSE]

NoKc == [text |-> None, parsed |-> [kcalRange |-> None], done |-> FALSE]

NoFb == [phase |-> "idle", targetCalories |-> 0, weightKg |-> 0, candidates |-> <<>>,
         plan |-> <<>>, target2 |-> 0, plan2 |-> <<>>]

(***************************************************************************)
(* The request handlers, a step at a time                                  *)
(***************************************************************************)

HandlerInit ==
    /\ pc = "idle" /\ req = NoReq /\ calls = 0
    /\ gem = NoGem /\ plan_json = NoPlan /\ resp = NoResp

\* a POST /api/workout_plan arrives
WP_Receive ==
    /\ pc = "idle"
    /\ \E t \in HandlerTargets, w \in HandlerWeights, c \in HandlerCandidates :
          req' = [endpoint |-> "workout_plan", targetCalories |-> t, weightKg |-> w,
                  candidates |-> c, image |-> "missing"]
    /\ pc' = "wp_recv"
    /\ UNCHANGED <<calls, gem, plan_json, resp, rp, kc, fb>>

\* lines 240-244
ValidPlanRequest(r) == r.targetCalories > 0 /\ r.weightKg > 0 /\ Len(r.candidates) > 0

WP_Validate ==
    /\ pc = "wp_recv"
    /\ IF ValidPlanRequest(req)
       THEN pc' = "wp_call" /\ resp' = resp
       ELSE pc' = "done" /\ resp' = [status |-> 400]
    /\ UNCHANGED <<req, calls, gem, plan_json, rp, kc, fb>>

\* the call made again when the first one fails
WP_GenerateRetry(g) ==
    /\ calls' = calls + (IF Raised(g) THEN 2 ELSE 1)
    /\ gem' = g
    /\ plan_json' = PlanJson(req, g)

\* lines 246-260: the one generate_content call and what plan_json becomes
WP_GenerateWith(g) ==
    /\ calls' = calls + 1
    /\ gem' = g
    /\ plan_json' = PlanJson(req, g)

WP_Generate ==
    /\ pc = "wp_call"
    /\ \E g \in PlanOutcomes : WP_GenerateWith(g)
    /\ pc' = "wp_enrich"
    /\ UNCHANGED <<req, resp, rp, kc, fb>>

WP_Enrich ==
    /\ pc = "wp_enrich"
    /\ resp' = Enrich(plan_json, req.candidates)
    /\ pc' = "done"
    /\ UNCHANGED <<req, calls, gem, plan_json, rp, kc, fb>>

\* a POST /api/analyze_food arrives
AF_Receive ==
    /\ pc = "idle"
    /\ \E img \in Images :
          req' = [endpoint |-> "analyze_food", targetCalories |-> 0, weightKg |-> 0,
                  candidates |-> <<>>, image |-> img]
    /\ pc' = "af_recv"
    /\ UNCHANGED <<calls, gem, plan_json, resp, rp, kc, fb>>

\* lines 116-126
AF_Validate ==
    /\ pc = "af_recv"
    /\ IF req.image = "ok"
       THEN pc' = "af_call" /\ resp' = resp
       ELSE pc' = "done" /\ resp' = [status |-> 400]
    /\ UNCHANGED <<req, calls, gem, plan_json, rp, kc, fb>>

\* lines 128-141: the one generate_content call and the response
AF_GenerateWith(g) ==
    /\ calls' = calls + 1
    /\ gem' = [raises |-> g.raises, text |-> g.text, doc |-> NoDoc]
    /\ resp' = IF g.raises THEN [status |-> 500]
               ELSE [status  |-> 200,
                     rawText |-> strip(IF g.text = None THEN <<>> ELSE g.text[1]),
                     parsed  |-> extract_fields(
                                   Some(strip(IF g.text = None THEN <<>> ELSE g.text[1])))]

AF_Generate ==
    /\ pc = "af_call"
    /\ \E g \in FoodOutcomes : AF_GenerateWith(g)
    /\ pc' = "done"
    /\ UNCHANGED <<req, plan_json, rp, kc, fb>>

\* the response is sent; the next request starts from nothing
Finish ==
    /\ pc = "done"
    /\ pc' = "idle" /\ req' = NoReq /\ calls' = 0
    /\ gem' = NoGem /\ plan_json' = NoPlan /\ resp' = NoResp
    /\ UNCHANGED <<rp, kc, fb>>

Init == HandlerInit /\ rp = NoRp /\ kc = NoKc /\ fb = NoFb

Next ==
    \/ WP_Receive \/ WP_Validate \/ WP_Generate \/ WP_Enrich
    \/ AF_Receive \/ AF_Validate \/ AF_Generate
    \/ Finish

Spec == Init /\ [][Next]_vars

(***************************************************************************)
(* _avg_from_range_text on every short text                                *)
(***************************************************************************)

RangeInit ==
    /\ HandlerInit /\ kc = NoKc /\ fb = NoFb
    /\ \E t \in RangeTexts : rp = [text |-> t, result |-> None, done |-> FALSE]

RangeCall ==
    /\ ~rp.done
    /\ rp' = [rp EXCEPT !.result = _avg_from_range_text(rp.text), !.done = TRUE]
    /\ UNCHANGED <<pc, req, calls, gem, plan_json, resp, kc, fb>>

RangeNext == RangeCall

SpecRange == RangeInit /\ [][RangeNext]_vars

(***************************************************************************)
(* extract_fields on texts with a kcal range                               *)
(***************************************************************************)

KcalInit ==
    /\ HandlerInit /\ rp = NoRp /\ fb = NoFb
    /\ \E t \in KcalTexts : kc = [text |-> Some(t), parsed |-> [kcalRange |-> None],
                                  done |-> FALSE]

KcalCall ==
    /\ ~kc.done
    /\ kc' = [kc EXCEPT !.parsed = extract_fields(kc.text), !.done = TRUE]
    /\ UNCHANGED <<pc, req, calls, gem, plan_json, resp, rp, fb>>

KcalNext == KcalCall

SpecKcal == KcalInit /\ [][KcalNext]_vars

(***************************************************************************)
(* fallback_plan, called and then called again with a target at least as   *)
(* large, the weight and the candidates unchanged                          *)
(***************************************************************************)

FallbackInit == HandlerInit /\ rp = NoRp /\ kc = NoKc /\ fb = NoFb

FallbackCall ==
    /\ fb.phase = "idle"
    /\ \E t \in 1..MaxTarget, w \in PlannerWeights, c \in PlannerLists :
          fb' = [fb EXCEPT !.phase = "first", !.targetCalories = t, !.weightKg = w,
                           !.candidates = c, !.plan = fallback_plan(t, w, c).items]
    /\ UNCHANGED <<pc, req, calls, gem, plan_json, resp, rp, kc>>

FallbackAgain ==
    /\ fb.phase = "first"
    /\ \E t2 \in fb.targetCalories..MaxTarget :
          fb' = [fb EXCEPT !.phase = "second", !.target2 = t2,
                           !.plan2 = fallback_plan(t2, fb.weightKg, fb.candidates).items]
    /\ UNCHANGED <<pc, req, calls, gem, plan_json, resp, rp, kc>>

FallbackNext == FallbackCall \/ FallbackAgain

SpecFallback == FallbackInit /\ [][FallbackNext]_vars

(***************************************************************************)
(* Properties of fallback_plan                                             *)
(***************************************************************************)

PositiveCount(candidates) ==
    Cardinality({k \in 1..Len(candidates) : candidates[k].met > 0})

UniqueIds(candidates) ==
    \A i, j \in 1..Len(candidates) : candidates[i].id = candidates[j].id => i = j

DistinctItemIds(items) ==
    \A i, j \in 1..Len(items) : items[i].id = items[j].id => i = j

\* C1: for a positive target and weight and a candidate list with unique ids
\* and at least 3 entries of positive MET, fallback_plan returns 3 to 6 items,
\* with pairwise distinct ids, each with minutes in [4, 12].
C1_ThreeToSix ==
    (/\ fb.phase # "idle"
     /\ UniqueIds(fb.candidates)
     /\ PositiveCount(fb.candidates) >= 3)
    => /\ Len(fb.plan) \in 3..6
       /\ DistinctItemIds(fb.plan)
       /\ \A k \in 1..Len(fb.plan) :
             fb.plan[k].minutes # None /\ fb.plan[k].minutes[1] \in 400..1200

\* C6: for a fixed weight and candidate list and targets 0 < t1 <= t2,
\* fallback_plan selects at least as many items for t2 as for t1.
C6_Monotone ==
    (fb.phase = "second" /\ fb.targetCalories <= fb.target2)
    => Len(fb.plan2) >= Len(fb.plan)

\* C10: in every plan of fallback_plan every item except the last one has
\* minutes exactly 12.
C10_AllButLastTwelve ==
    fb.phase # "idle"
    => \A k \in 1..(Len(fb.plan) - 1) : fb.plan[k].minutes = Some(1200)

(***************************************************************************)
(* Properties of extract_fields                                            *)
(***************************************************************************)

\* C9: a kcalRange that extract_fields returns is a pair of integers
\* <<low, high>> with low <= high.
C9_LowHigh ==
    (kc.done /\ kc.parsed.kcalRange # None)
    => /\ Len(kc.parsed.kcalRange[1]) = 2
       /\ kc.parsed.kcalRange[1][1] \in Int
       /\ kc.parsed.kcalRange[1][2] \in Int
       /\ kc.parsed.kcalRange[1][1] <= kc.parsed.kcalRange[1][2]

(***************************************************************************)
(* Properties of _avg_from_range_text.  A number is written as digits, or  *)
(* digits, a point and digits, which is how every pattern of the module    *)
(* writes one; values are exact decimals [num, den].                       *)
(***************************************************************************)

IsNumeral(w) ==
    /\ w # <<>>
    /\ \A i \in 1..Len(w) : IsDigit(w[i]) \/ w[i] = "."
    /\ Cardinality({i \in 1..Len(w) : w[i] = "."}) <= 1
    /\ IsDigit(w[1]) /\ IsDigit(w[Len(w)])

\* the value of a numeral: its digits over 10 to the number of decimals
NumeralValue(w) ==
    [num |-> IntOf(SelectSeq(w, IsDigit)),
     den |-> 10 ^ Cardinality({i \in 1..Len(w) : \E j \in 1..(i - 1) : w[j] = "."})]

RatEq(x, y) == x.num * y.den = y.num * x.den

RatLe(x, y) == x.num * y.den <= y.num * x.den

\* w is blanks, one hyphen or en-dash, blanks
IsSeparator(w) ==
    /\ \A i \in 1..Len(w) : IsSpace(w[i]) \/ IsDash(w[i])
    /\ Cardinality({i \in 1..Len(w) : IsDash(w[i])}) = 1

\* w, blanks around it aside, is all of text
IsTrimOf(w, lo, hi, text) ==
    /\ w = SubSeq(text, lo, hi)
    /\ \A i \in 1..Len(text) : (i < lo \/ i > hi) => IsSpace(text[i])

RangeParserOn(text, result) ==
    \A lo \in 1..(Len(text) + 1), hi \in 0..Len(text) :
        LET w == SubSeq(text, lo, hi)
        IN  IsTrimOf(w, lo, hi, text) =>
              /\ IsNumeral(w) => result # None /\ RatEq(result[1], NumeralValue(w))
              /\ \A i \in 1..Len(w), j \in 1..Len(w) :
                    LET a == SubSeq(w, 1, i)
                        b == SubSeq(w, j + 1, Len(w))
                    IN  (/\ i < j /\ IsNumeral(a) /\ IsNumeral(b)
                         /\ IsSeparator(SubSeq(w, i + 1, j))
                         /\ RatLe(NumeralValue(a), NumeralValue(b)))
                        => /\ result # None
                           /\ RatEq(result[1],
                                    [num |-> NumeralValue(a).num * NumeralValue(b).den
                                             + NumeralValue(b).num * NumeralValue(a).den,
                                     den |-> 2 * NumeralValue(a).den * NumeralValue(b).den])

\* C7: _avg_from_range_text returns (A+B)/2 for a range "A-B" with A <= B
\* (hyphen or en-dash), N for a bare number N, and None for None, for an
\* empty text and for a text with no digit.
C7_RangeParser ==
    rp.done =>
       /\ rp.text = None => rp.result = None
       /\ rp.text # None =>
             /\ RangeParserOn(rp.text[1], rp.result)
             /\ (\A i \in 1..Len(rp.text[1]) : ~IsDigit(rp.text[1][i])) => rp.result = None

C7_Witness ==
    /\ rp.done
    /\ rp.text = Some(<<"1", ".", "5", " ", EnDash, " ", "2", ".", "5">>)
    /\ rp.result # None /\ RatEq(rp.result[1], [num |-> 2, den |-> 1])

(***************************************************************************)
(* Properties of the request handlers                                      *)
(***************************************************************************)

PlanDone == pc = "done" /\ req.endpoint = "workout_plan"

\* the request passes the validation of workout_plan
PassesValidation ==
    req.targetCalories > 0 /\ req.weightKg > 0 /\ req.candidates # <<>>

\* the external model raised, returned a text holding no JSON, or returned
\* JSON that is not an object
ModelFailed ==
    \/ gem.raises
    \/ ~safe_json_extract(gem.text).ok
    \/ safe_json_extract(gem.text).kind # "object"

\* C2: a workout_plan request that passes validation ends in a success
\* response built from the fallback plan whenever the external model fails
\* (raises, empty text, text that is not JSON, JSON that is not an object).
C2_AlwaysFallsBack ==
    (PlanDone /\ PassesValidation /\ ModelFailed)
    => resp.status = 200 /\ plan_json.src = "fallback"

\* the plan has fewer than 3 or more than 6 items, or two items of one id
BadCountOrDuplicate(items) ==
    \/ Len(items) < 3
    \/ Len(items) > 6
    \/ \E i, j \in 1..Len(items) : i # j /\ items[i].id = items[j].id

\* C3: a plan of the external model with fewer than 3 or more than 6 items,
\* or with a duplicate id, is rejected and the response is produced from the
\* fallback plan.
C3_BadPlanRejected ==
    (/\ PlanDone
     /\ plan_json.src = "model" /\ plan_json.kind = "object"
     /\ plan_json.doc.items.kind = "list"
     /\ BadCountOrDuplicate(plan_json.doc.items.list))
    => resp = Enrich(FallbackJson(req), req.candidates)

RECURSIVE SumMinutes(_)
SumMinutes(items) ==
    IF items = <<>> THEN 0 ELSE items[1].minutes + SumMinutes(Tail(items))

\* total (tenths) is sum (hundredths) rounded to one decimal, ties to even
IsRounded(total, sum) ==
    /\ 10 * total - sum \in -5..5
    /\ (10 * total - sum \in {-5, 5} => total % 2 = 0)

Success == PlanDone /\ resp.status = 200

PlanItems == plan_json.doc.items.list

HasList == plan_json.kind = "object" /\ plan_json.doc.items.kind = "list"

PositiveMinutes(it) == it.minutes # None /\ it.minutes[1] > 0

IsCandidateId(id) == \E c \in 1..Len(req.candidates) : req.candidates[c].id = id

\* the clamp to [3, 20], in hundredths
Clamped(m) == IF m < 300 THEN 300 ELSE IF m > 2000 THEN 2000 ELSE m

\* the response's items are the plan's items that Keep keeps, in order, each
\* with the minutes it has in the response to the plan without the others
KeepsExactly(Keep(_)) ==
    LET kept == SelectSeq(PlanItems, Keep)
    IN  /\ Len(resp.items) = Len(kept)
        /\ \A k \in 1..Len(kept) :
              /\ resp.items[k].id = strip(kept[k].id)
              /\ resp.items[k].minutes = Clamped(kept[k].minutes[1])
        /\ resp.items =
              Enrich([plan_json EXCEPT !.doc.items.list = kept], req.candidates).items

\* C8, as stated: the returned items are exactly the plan's items whose id
\* is the id of a candidate and whose minutes is positive, in order, each
\* with the clamped minutes it has without the dropped items.
C8_KnownIdAsWritten ==
    (Success /\ HasList)
    => KeepsExactly(LAMBDA it : IsCandidateId(it.id) /\ PositiveMinutes(it))

\* C8, amended: the returned items are exactly the plan's items whose id,
\* with the blanks around it removed, is not empty and is the id of a
\* candidate, and whose minutes is positive, in order, each with the clamped
\* minutes it has without the dropped items.
C8_DropsOnly ==
    (Success /\ HasList)
    => KeepsExactly(LAMBDA it : /\ strip(it.id) # <<>>
                                /\ IsCandidateId(strip(it.id))
                                /\ PositiveMinutes(it))

C8_Witness ==
    /\ Success /\ HasList /\ plan_json.src = "model"
    /\ Len(PlanItems) = 2
    /\ PlanItems[1].id = <<"z">>
    /\ Len(resp.items) = 1
    /\ resp.items[1].id = <<"a">> /\ resp.items[1].minutes = 725

====
